---- MODULE Spec2Model ----
(***************************************************************************)
(* Model of azure_resource_manager.py: the AzureCLIManager process         *)
(* executor (verify_azure_cli, run_az_command), the operation catalog      *)
(* built on it, and the control flow of AzureCLIApp / main().              *)
(*                                                                         *)
(* Conventions                                                             *)
(*  - A Python value is a record PyVal with the fields k, b, n, s, keys,   *)
(*    items; k is its type: "none", "bool", "int", "str", "list", "dict".  *)
(*    json.loads yields such values, so JSON null IS None, JSON true IS    *)
(*    True and a decoded JSON string IS a str, exactly as in Python.       *)
(*  - The text a process writes is a sequence of lexemes; the text itself  *)
(*    is their concatenation (Text).                                       *)
(*  - Printed lines are strings. The leading pictographs of the source's   *)
(*    messages and the column padding of table rows are left out.          *)
(***************************************************************************)
EXTENDS Integers, Sequences, FiniteSets, TLC

VARIABLES
    pc,                    \* where the program (or the harness) is
    args,                  \* argparse namespace: action, name, resource_group, location
                           \* (for a library caller: the arguments of its last call)
    exitStatus,            \* process exit status: -1 while running
    fault,                 \* exception that escaped to the interpreter, or "none"
    nCalls,                \* external processes started since program start
    nAccountShow,          \* how many of them were "az account show"
    verified,              \* outcome of verify_azure_cli: "pending", "ok", or the exception
    current_subscription,  \* AzureCLIManager.current_subscription
    callerCommand,         \* the caller's command list after the last run_az_command
    python,                \* the interpreter running the script (the source pins none)
    last                   \* record of the last step (operation, inputs, result, prints)

vars == <<pc, args, exitStatus, fault, nCalls, nAccountShow, verified,
          current_subscription, callerCommand, python, last>>

----------------------------------------------------------------------------
(* Bounds *)

\* longest process output, in lexemes, that is enumerated exhaustively
MaxLen == 3
\* how many times the harness calls run_az_command on one list
MaxCalls == 2
\* how many menu choices an interactive session makes
MaxOps == 2

----------------------------------------------------------------------------
(* Python values *)

PyVal(k, b, n, s, keys, items) ==
    [k |-> k, b |-> b, n |-> n, s |-> s, keys |-> keys, items |-> items]

PyNone == PyVal("none", FALSE, 0, "", <<>>, <<>>)
PyBool(b) == PyVal("bool", b, 0, "", <<>>, <<>>)
PyTrue == PyBool(TRUE)
PyFalse == PyBool(FALSE)
PyInt(n) == PyVal("int", FALSE, n, "", <<>>, <<>>)
PyStr(s) == PyVal("str", FALSE, 0, s, <<>>, <<>>)
PyList(items) == PyVal("list", FALSE, 0, "", <<>>, items)
\* a dict: keys[i] maps to items[i]; keys are distinct, in insertion order
PyDict(keys, items) == PyVal("dict", FALSE, 0, "", keys, items)

\* bool(v): what `if result:` tests
Truthy(v) ==
    CASE v.k = "none" -> FALSE
      [] v.k = "bool" -> v.b
      [] v.k = "int"  -> v.n # 0
      [] v.k = "str"  -> v.s # ""
      [] v.k = "list" -> v.items # <<>>
      [] v.k = "dict" -> v.keys # <<>>

Range(f) == {f[i] : i \in DOMAIN f}

\* d[key] of a dict that has the key
DictAt(d, key) == d.items[CHOOSE i \in DOMAIN d.keys : d.keys[i] = key]

\* d.get(key, default)
DictGet(d, key, default) ==
    IF key \in Range(d.keys) THEN DictAt(d, key) ELSE default

\* d[key] = v
DictSet(d, key, v) ==
    IF key \in Range(d.keys)
    THEN PyDict(d.keys,
                [i \in DOMAIN d.items |-> IF d.keys[i] = key THEN v ELSE d.items[i]])
    ELSE PyDict(Append(d.keys, key), Append(d.items, v))

----------------------------------------------------------------------------
(* Text and lexemes *)

\* "".join(lexemes)
RECURSIVE Text(_)
Text(lexemes) ==
    IF lexemes = <<>> THEN "" ELSE Head(lexemes) \o Text(Tail(lexemes))

\* sep.join(parts)
RECURSIVE Join(_, _)
Join(parts, sep) ==
    IF parts = <<>> THEN ""
    ELSE IF Len(parts) = 1 THEN parts[1]
    ELSE parts[1] \o sep \o Join(Tail(parts), sep)

\* the JSON string literals that occur in the modelled outputs
StringLexemes ==
    {"\"a\"", "\"\"", "\"name\"", "\"type\"", "\"properties\"", "\"sku\"",
     "\"location\"", "\"id\"", "\"rg1\"", "\"eastus\"", "\"Succeeded\"",
     "\"provisioningState\"",
     "\"Microsoft.Compute/virtualMachines\"", "\"publicIpAddress\""}

\* the content of a JSON string literal (no escapes occur in StringLexemes)
StringContent(lex) ==
    CASE lex = "\"a\"" -> "a"
      [] lex = "\"\"" -> ""
      [] lex = "\"name\"" -> "name"
      [] lex = "\"type\"" -> "type"
      [] lex = "\"properties\"" -> "properties"
      [] lex = "\"sku\"" -> "sku"
      [] lex = "\"location\"" -> "location"
      [] lex = "\"id\"" -> "id"
      [] lex = "\"rg1\"" -> "rg1"
      [] lex = "\"eastus\"" -> "eastus"
      [] lex = "\"Succeeded\"" -> "Succeeded"
      [] lex = "\"provisioningState\"" -> "provisioningState"
      [] lex = "\"Microsoft.Compute/virtualMachines\"" -> "Microsoft.Compute/virtualMachines"
      [] lex = "\"publicIpAddress\"" -> "publicIpAddress"

DigitLexemes == {"0", "7"}
DigitValue(lex) == IF lex = "0" THEN 0 ELSE 7
WhitespaceLexemes == {" ", "\n"}

----------------------------------------------------------------------------
(* json.loads, on a sequence of lexemes: the grammar of json.decoder and   *)
(* json.scanner (py_scanstring, JSONArray, JSONObject, NUMBER_RE).         *)

\* a parse: ok, the value, and the index of the first lexeme not consumed
Parsed(v, end) == [ok |-> TRUE, val |-> v, end |-> end]
ParseError == [ok |-> FALSE, val |-> PyNone, end |-> 0]

\* WHITESPACE.match(s, i).end()
RECURSIVE SkipWhitespace(_, _)
SkipWhitespace(s, i) ==
    IF i <= Len(s) /\ s[i] \in WhitespaceLexemes
    THEN SkipWhitespace(s, i + 1)
    ELSE i

\* the digits [1-9]\d* takes from position i on, with the value read so far
RECURSIVE ScanDigits(_, _, _)
ScanDigits(s, i, acc) ==
    IF i <= Len(s) /\ s[i] \in DigitLexemes
    THEN ScanDigits(s, i + 1, acc * 10 + DigitValue(s[i]))
    ELSE Parsed(PyInt(acc), i)

\* NUMBER_RE: -?(0|[1-9]\d*); a leading 0 ends the number
ScanNumber(s, i) ==
    IF s[i] = "0" THEN Parsed(PyInt(0), i + 1) ELSE ScanDigits(s, i, 0)

RECURSIVE scan_once(_, _), JSONArrayItems(_, _, _), JSONObjectPairs(_, _, _)

\* JSONArray, after the opening bracket and the first value's position
JSONArrayItems(s, i, acc) ==
    LET r == scan_once(s, i) IN
    IF ~r.ok THEN ParseError
    ELSE LET j == SkipWhitespace(s, r.end)
             items == Append(acc, r.val) IN
         IF j > Len(s) THEN ParseError
         ELSE IF s[j] = "]" THEN Parsed(PyList(items), j + 1)
         ELSE IF s[j] # "," THEN ParseError
         ELSE JSONArrayItems(s, SkipWhitespace(s, j + 1), items)

JSONArray(s, i) ==
    LET j == SkipWhitespace(s, i) IN
    IF j <= Len(s) /\ s[j] = "]" THEN Parsed(PyList(<<>>), j + 1)
    ELSE JSONArrayItems(s, j, <<>>)

\* JSONObject, at the position of a key; acc is the dict built so far
JSONObjectPairs(s, i, acc) ==
    IF i > Len(s) \/ s[i] \notin StringLexemes THEN ParseError
    ELSE LET key == StringContent(s[i])
             c == SkipWhitespace(s, i + 1) IN
         IF c > Len(s) \/ s[c] # ":" THEN ParseError
         ELSE LET r == scan_once(s, SkipWhitespace(s, c + 1)) IN
              IF ~r.ok THEN ParseError
              ELSE LET j == SkipWhitespace(s, r.end)
                       d == DictSet(acc, key, r.val) IN
                   IF j > Len(s) THEN ParseError
                   ELSE IF s[j] = "}" THEN Parsed(d, j + 1)
                   ELSE IF s[j] # "," THEN ParseError
                   ELSE JSONObjectPairs(s, SkipWhitespace(s, j + 1), d)

JSONObject(s, i) ==
    LET j == SkipWhitespace(s, i) IN
    IF j <= Len(s) /\ s[j] = "}" THEN Parsed(PyDict(<<>>, <<>>), j + 1)
    ELSE JSONObjectPairs(s, j, PyDict(<<>>, <<>>))

\* scanner.py_make_scanner._scan_once
scan_once(s, i) ==
    IF i > Len(s) THEN ParseError
    ELSE CASE s[i] \in StringLexemes -> Parsed(PyStr(StringContent(s[i])), i + 1)
           [] s[i] = "{" -> JSONObject(s, i + 1)
           [] s[i] = "[" -> JSONArray(s, i + 1)
           [] s[i] = "null" -> Parsed(PyNone, i + 1)
           [] s[i] = "true" -> Parsed(PyTrue, i + 1)
           [] s[i] = "false" -> Parsed(PyFalse, i + 1)
           [] s[i] \in DigitLexemes -> ScanNumber(s, i)
           [] OTHER -> ParseError

\* JSONDecoder.decode: one value, whitespace around it, nothing after it.
\* ok = FALSE is json.JSONDecodeError.
json_loads(s) ==
    LET r == scan_once(s, SkipWhitespace(s, 1)) IN
    IF ~r.ok THEN ParseError
    ELSE IF SkipWhitespace(s, r.end) # Len(s) + 1 THEN ParseError
    ELSE r

----------------------------------------------------------------------------
(* The external process, as subprocess.run(argv, capture_output=True,      *)
(* text=True, check=True) sees it.                                         *)

\* what the environment does with one invocation
Proc(kind, stdout, stderr) == [kind |-> kind, stdout |-> stdout, stderr |-> stderr]
ProcKinds == {"exit0", "nonzero", "notfound", "undecodable"}

\* a completed call: the exception raised ("none": a CompletedProcess)
Completed(exc, stdout, stderr) == [exc |-> exc, stdout |-> stdout, stderr |-> stderr]

subprocess_run(argv, proc) ==
    IF argv = <<>> THEN Completed("IndexError", <<>>, "")
    ELSE CASE proc.kind = "notfound" -> Completed("FileNotFoundError", <<>>, "")
           [] proc.kind = "undecodable" -> Completed("UnicodeDecodeError", <<>>, "")
           [] proc.kind = "nonzero" -> Completed("CalledProcessError", proc.stdout, proc.stderr)
           [] proc.kind = "exit0" -> Completed("none", proc.stdout, proc.stderr)

\* subprocess.run was entered with a program to start
Invoked(argv) == argv # <<>>

\* the classes the modelled calls raise; all derive from Exception
ExceptionClasses ==
    {"CalledProcessError", "FileNotFoundError", "IndexError", "UnicodeDecodeError",
     "JSONDecodeError", "AttributeError", "TypeError"}

\* isinstance(exc, cls)
IsInstance(exc, cls) ==
    IF cls = "Exception" THEN exc \in ExceptionClasses ELSE exc = cls

\* str(e)
ExceptionText(exc, argv) ==
    CASE exc = "FileNotFoundError" ->
            "[Errno 2] No such file or directory: '" \o argv[1] \o "'"
      [] exc = "IndexError" -> "list index out of range"
      [] exc = "UnicodeDecodeError" ->
            "'utf-8' codec can't decode byte 0xff in position 0: invalid start byte"
      [] OTHER -> exc

----------------------------------------------------------------------------
(* AzureCLIManager.verify_azure_cli *)

\* verify_azure_cli without the sys.exit(1) of its FileNotFoundError clause
verify_azure_cli_NoExit(proc) ==
    LET r == subprocess_run(<<"az", "--version">>, proc) IN
    CASE r.exc = "none" ->
            [exc |-> r.exc, exit |-> -1, raised |-> "none", printed |-> <<>>]
      [] IsInstance(r.exc, "CalledProcessError") ->
            [exc |-> r.exc, exit |-> 1, raised |-> "none", printed |-> <<>>]
      [] IsInstance(r.exc, "FileNotFoundError") ->
            [exc |-> r.exc, exit |-> -1, raised |-> "none", printed |-> <<>>]
      [] OTHER ->
            [exc |-> r.exc, exit |-> -1, raised |-> r.exc, printed |-> <<>>]

\* exc is what subprocess.run raised ("none": it returned); then the method
\* returned True (exit = -1), called sys.exit(1), or let the exception pass
verify_azure_cli(proc) ==
    LET r == subprocess_run(<<"az", "--version">>, proc) IN
    CASE r.exc = "none" ->
            [exc |-> r.exc, exit |-> -1, raised |-> "none", printed |-> <<>>]
      [] IsInstance(r.exc, "CalledProcessError") ->
            [exc |-> r.exc, exit |-> 1, raised |-> "none",
             printed |-> <<"Error: Azure CLI is not installed or not in PATH.",
                           "Please install Azure CLI: https://docs.microsoft.com/en-us/cli/azure/install-azure-cli">>]
      [] IsInstance(r.exc, "FileNotFoundError") ->
            [exc |-> r.exc, exit |-> 1, raised |-> "none",
             printed |-> <<"Error: Azure CLI command 'az' not found.",
                           "Please ensure Azure CLI is installed and in your PATH.">>]
      [] OTHER ->
            [exc |-> r.exc, exit |-> -1, raised |-> r.exc, printed |-> <<>>]

----------------------------------------------------------------------------
(* AzureCLIManager.run_az_command *)

\* the extension made whatever capture_output is
ExtendForCapture_Always(command, capture_output) ==
    command \o <<"--output", "json">>

\* lines 70-71: command.extend(["--output", "json"]), on the caller's list
ExtendForCapture(command, capture_output) ==
    IF capture_output THEN command \o <<"--output", "json">> ELSE command

\* a decode failure returned as a failure (None) instead of the raw text
DecodeOutput_NoFallback(stdout, capture_output) ==
    IF capture_output /\ stdout # <<>>
    THEN LET d == json_loads(stdout) IN
         IF d.ok THEN d.val ELSE PyNone
    ELSE IF stdout # <<>> THEN PyStr(Text(stdout)) ELSE PyTrue

\* lines 80-86: the value returned after a zero exit
DecodeOutput(stdout, capture_output) ==
    IF capture_output /\ stdout # <<>>
    THEN LET d == json_loads(stdout) IN
         IF d.ok THEN d.val ELSE PyStr(Text(stdout))
    ELSE IF stdout # <<>> THEN PyStr(Text(stdout)) ELSE PyTrue

\* the except clauses without the catch-all `except Exception`
HandleError_NoCatchAll(exc, stderr, command) ==
    CASE IsInstance(exc, "CalledProcessError") ->
            [raised |-> "none",
             printed |-> <<"Error executing command: " \o Join(command, " ")>>
                         \o (IF stderr # "" THEN <<"Details: " \o stderr>> ELSE <<>>)]
      [] OTHER -> [raised |-> exc, printed |-> <<>>]

\* the except clauses without the print of e.stderr
HandleError_NoDetails(exc, stderr, command) ==
    CASE IsInstance(exc, "CalledProcessError") ->
            [raised |-> "none",
             printed |-> <<"Error executing command: " \o Join(command, " ")>>]
      [] IsInstance(exc, "Exception") ->
            [raised |-> "none",
             printed |-> <<"Unexpected error: " \o ExceptionText(exc, command)>>]
      [] OTHER -> [raised |-> exc, printed |-> <<>>]

\* lines 88-95: the except clauses; raised is what no clause caught
HandleError(exc, stderr, command) ==
    CASE IsInstance(exc, "CalledProcessError") ->
            [raised |-> "none",
             printed |-> <<"Error executing command: " \o Join(command, " ")>>
                         \o (IF stderr # "" THEN <<"Details: " \o stderr>> ELSE <<>>)]
      [] IsInstance(exc, "Exception") ->
            [raised |-> "none",
             printed |-> <<"Unexpected error: " \o ExceptionText(exc, command)>>]
      [] OTHER -> [raised |-> exc, printed |-> <<>>]

\* The call: ret is the value returned (None when raised), command the
\* caller's list as the call leaves it, argv what subprocess.run was given;
\* given, capture and proc are the call's inputs.
run_az_command(command, capture_output, proc) ==
    LET cmd == ExtendForCapture(command, capture_output)
        r == subprocess_run(cmd, proc)
        h == HandleError(r.exc, r.stderr, cmd)
        call == [given |-> command, capture |-> capture_output, proc |-> proc,
                 command |-> cmd, argv |-> cmd, invoked |-> Invoked(cmd)]
    IN  IF r.exc = "none"
        THEN call @@ [ret |-> DecodeOutput(r.stdout, capture_output), raised |-> "none",
                      printed |-> <<>>]
        ELSE call @@ [ret |-> PyNone, raised |-> h.raised, printed |-> h.printed]

\* get_current_subscription asking for the list of accounts instead
get_current_subscription_AccountList(proc) ==
    run_az_command(<<"az", "account", "list">>, TRUE, proc)

\* get_current_subscription
get_current_subscription(proc) == run_az_command(<<"az", "account", "show">>, TRUE, proc)

----------------------------------------------------------------------------
(* Formatting *)

DigitText(d) ==
    CASE d = 0 -> "0" [] d = 1 -> "1" [] d = 2 -> "2" [] d = 3 -> "3" [] d = 4 -> "4"
      [] d = 5 -> "5" [] d = 6 -> "6" [] d = 7 -> "7" [] d = 8 -> "8" [] d = 9 -> "9"

\* str(n) of an int n >= 0
RECURSIVE IntText(_)
IntText(n) == IF n < 10 THEN DigitText(n) ELSE IntText(n \div 10) \o DigitText(n % 10)

\* repr(v)
RECURSIVE Repr(_), ReprItems(_, _), ReprPairs(_, _)
ReprItems(items, i) ==
    IF i > Len(items) THEN ""
    ELSE Repr(items[i]) \o (IF i < Len(items) THEN ", " ELSE "") \o ReprItems(items, i + 1)
ReprPairs(d, i) ==
    IF i > Len(d.keys) THEN ""
    ELSE "'" \o d.keys[i] \o "': " \o Repr(d.items[i])
         \o (IF i < Len(d.keys) THEN ", " ELSE "") \o ReprPairs(d, i + 1)
Repr(v) ==
    CASE v.k = "none" -> "None"
      [] v.k = "bool" -> (IF v.b THEN "True" ELSE "False")
      [] v.k = "int"  -> IntText(v.n)
      [] v.k = "str"  -> "'" \o v.s \o "'"
      [] v.k = "list" -> "[" \o ReprItems(v.items, 1) \o "]"
      [] v.k = "dict" -> "{" \o ReprPairs(v, 1) \o "}"

\* str(v), what f"{v}" prints
Str(v) == IF v.k = "str" THEN v.s ELSE Repr(v)

\* f"{v:<30}" raises TypeError unless v is a str or a number
Formattable(v) == v.k \in {"str", "int", "bool"}

\* f"{v:<30}" without its padding; a bool formats as the int it is
Format(v) ==
    CASE v.k = "str" -> v.s
      [] v.k = "int" -> IntText(v.n)
      [] v.k = "bool" -> (IF v.b THEN "1" ELSE "0")

\* s.split('/')[-1] for the strings of the model
RECURSIVE LastPartFrom(_, _)
LastPartFrom(s, i) ==
    IF i = 0 THEN s
    ELSE IF SubSeq(s, i, i) = "/" THEN SubSeq(s, i + 1, Len(s))
    ELSE LastPartFrom(s, i - 1)

LastPart(s) == LastPartFrom(s, Len(s))

NA == PyStr("N/A")
EmptyDict == PyDict(<<>>, <<>>)

----------------------------------------------------------------------------
(* Iteration over a result, as the list operations do it *)

\* `for x in v`: the elements, or the TypeError of a value that has none.
\* A str yields its characters, each a str: one element stands for them.
Iterate(v) ==
    CASE v.k = "list" -> [raised |-> "none", items |-> v.items]
      [] v.k = "dict" -> [raised |-> "none", items |-> [i \in DOMAIN v.keys |-> PyStr(v.keys[i])]]
      [] v.k = "str"  -> [raised |-> "none", items |-> IF v.s = "" THEN <<>> ELSE <<PyStr(v.s)>>]
      [] OTHER -> [raised |-> "TypeError", items |-> <<>>]

\* `v[:20]`: a dict takes no slice, a bool or an int no subscript
\* the interpreters that differ in what the script does: a slice is
\* unhashable before Python 3.12 and hashable from 3.12 on
PythonVersions == {"3.11", "3.12"}

\* result[:20]: a dict looks the slice up as a key, which is a TypeError
\* (unhashable) before 3.12 and a KeyError from 3.12 on; None, a bool and an
\* int are not subscriptable
Slice20(v) ==
    CASE v.k = "list" -> [raised |-> "none", items |-> SubSeq(v.items, 1, IF Len(v.items) < 20 THEN Len(v.items) ELSE 20)]
      [] v.k = "str"  -> [raised |-> "none", items |-> IF v.s = "" THEN <<>> ELSE <<PyStr(v.s)>>]
      [] v.k = "dict" -> [raised |-> IF python = "3.12" THEN "KeyError" ELSE "TypeError",
                          items |-> <<>>]
      [] OTHER -> [raised |-> "TypeError", items |-> <<>>]

\* one pass of a loop body: the line it prints, or the exception it raises
Row(line) == [raised |-> "none", line |-> line]
RowRaises(exc) == [raised |-> exc, line |-> ""]

\* the loop: the lines printed until a body raises
LoopRows(rows) ==
    LET bad == {i \in DOMAIN rows : rows[i].raised # "none"} IN
    IF bad = {}
    THEN [raised |-> "none", lines |-> [i \in DOMAIN rows |-> rows[i].line]]
    ELSE LET k == CHOOSE i \in bad : \A j \in bad : i <= j IN
         [raised |-> rows[k].raised, lines |-> [i \in 1..(k - 1) |-> rows[i].line]]

\* len(v), of the values that have one
PyLen(v) ==
    CASE v.k = "list" -> Len(v.items)
      [] v.k = "dict" -> Len(v.keys)
      [] v.k = "str" -> Len(v.s)

----------------------------------------------------------------------------
(* The operation catalog. Every operation yields                           *)
(*   ret: the value returned, raised: the exception that left it,          *)
(*   printed: its lines, exec: the run_az_command call it made.            *)

Outcome(ret, raised, printed, exec) ==
    [ret |-> ret, raised |-> raised, printed |-> printed, exec |-> exec]

\* `if result: print(success); return True` / `return False`
BoolResult(intro, x, success) ==
    IF x.raised # "none" THEN Outcome(PyNone, x.raised, intro \o x.printed, x)
    ELSE IF Truthy(x.ret) THEN Outcome(PyTrue, "none", intro \o x.printed \o success, x)
    ELSE Outcome(PyFalse, "none", intro \o x.printed, x)

\* `if result: header; for ...: row; total; return result` / `return []`
ListResult(intro, x, header, elems, rows, total) ==
    IF x.raised # "none" THEN Outcome(PyNone, x.raised, intro \o x.printed, x)
    ELSE IF ~Truthy(x.ret) THEN Outcome(PyList(<<>>), "none", intro \o x.printed, x)
    ELSE IF elems.raised # "none"
         THEN Outcome(PyNone, elems.raised, intro \o x.printed \o header, x)
    ELSE LET loop == LoopRows(rows) IN
         IF loop.raised # "none"
         THEN Outcome(PyNone, loop.raised, intro \o x.printed \o header \o loop.lines, x)
         ELSE Outcome(x.ret, "none", intro \o x.printed \o header \o loop.lines \o total, x)

\* " ".join(f"{k}={v}" ...) of the tags, a sequence of <<k, v>>
TagString(tags) == Join([i \in DOMAIN tags |-> tags[i][1] \o "=" \o tags[i][2]], " ")

create_resource_group(name, location, tags, proc) ==
    LET command == <<"az", "group", "create", "--name", name, "--location", location>>
                   \o (IF tags # <<>> THEN <<"--tags", TagString(tags)>> ELSE <<>>)
        x == run_az_command(command, TRUE, proc)
    IN  BoolResult(<<"Creating resource group '" \o name \o "' in " \o location \o "...">>,
                   x, <<"Resource group '" \o name \o "' created successfully!">>)

ResourceGroupRow(rg) ==
    IF rg.k # "dict" THEN RowRaises("AttributeError")
    ELSE LET name == DictGet(rg, "name", NA)
             location == DictGet(rg, "location", NA)
             properties == DictGet(rg, "properties", EmptyDict)
         IN  IF properties.k # "dict" THEN RowRaises("AttributeError")
             ELSE LET state == DictGet(properties, "provisioningState", NA) IN
                  IF \A v \in {name, location, state} : Formattable(v)
                  THEN Row(Format(name) \o " " \o Format(location) \o " " \o Format(state))
                  ELSE RowRaises("TypeError")

list_resource_groups(proc) ==
    LET x == run_az_command(<<"az", "group", "list">>, TRUE, proc)
        elems == Iterate(x.ret)
    IN  ListResult(<<"Fetching resource groups...\n">>, x,
                   <<"Name Location Status", "------------------------------------------------------------">>,
                   elems, [i \in DOMAIN elems.items |-> ResourceGroupRow(elems.items[i])],
                   <<"\nTotal resource groups: " \o IntText(PyLen(x.ret))>>)

\* delete_resource_group without the no_wait branch of line 174
delete_resource_group_AlwaysWaits(name, no_wait, proc) ==
    LET command == <<"az", "group", "delete", "--name", name, "--yes">>
        x == run_az_command(command, FALSE, proc)
    IN  BoolResult(<<"Deleting resource group '" \o name \o "'...",
                     "This will delete ALL resources in the resource group!">>,
                   x,
                   IF no_wait
                   THEN <<"Deletion of '" \o name \o "' initiated (running in background)">>
                   ELSE <<"Resource group '" \o name \o "' deleted successfully!">>)

delete_resource_group(name, no_wait, proc) ==
    LET command == <<"az", "group", "delete", "--name", name, "--yes">>
                   \o (IF no_wait THEN <<"--no-wait">> ELSE <<>>)
        x == run_az_command(command, FALSE, proc)
    IN  BoolResult(<<"Deleting resource group '" \o name \o "'...",
                     "This will delete ALL resources in the resource group!">>,
                   x,
                   IF no_wait
                   THEN <<"Deletion of '" \o name \o "' initiated (running in background)">>
                   ELSE <<"Resource group '" \o name \o "' deleted successfully!">>)

create_storage_account(name, resource_group, location, sku, proc) ==
    LET command == <<"az", "storage", "account", "create", "--name", name,
                     "--resource-group", resource_group, "--location", location,
                     "--sku", sku>>
        x == run_az_command(command, TRUE, proc)
    IN  BoolResult(<<"Creating storage account '" \o name \o "'...",
                     "   Resource Group: " \o resource_group,
                     "   Location: " \o location,
                     "   SKU: " \o sku>>,
                   x, <<"Storage account '" \o name \o "' created successfully!">>)

StorageAccountRow(sa) ==
    IF sa.k # "dict" THEN RowRaises("AttributeError")
    ELSE LET name == DictGet(sa, "name", NA)
             rg == DictGet(sa, "resourceGroup", NA)
             location == DictGet(sa, "location", NA)
             skuObj == DictGet(sa, "sku", EmptyDict)
         IN  IF skuObj.k # "dict" THEN RowRaises("AttributeError")
             ELSE LET sku == DictGet(skuObj, "name", NA) IN
                  IF \A v \in {name, rg, location, sku} : Formattable(v)
                  THEN Row(Format(name) \o " " \o Format(rg) \o " " \o Format(location)
                           \o " " \o Format(sku))
                  ELSE RowRaises("TypeError")

list_storage_accounts(resource_group, proc) ==
    LET command == <<"az", "storage", "account", "list">>
                   \o (IF resource_group # "" THEN <<"--resource-group", resource_group>> ELSE <<>>)
        x == run_az_command(command, TRUE, proc)
        elems == Iterate(x.ret)
    IN  ListResult(<<"Fetching storage accounts...\n">>, x,
                   <<"Name Resource Group Location SKU", "------------------------------------------------------------------------------------------">>,
                   elems, [i \in DOMAIN elems.items |-> StorageAccountRow(elems.items[i])],
                   <<"\nTotal storage accounts: " \o IntText(PyLen(x.ret))>>)

create_blob_container(account_name, container_name, proc) ==
    LET command == <<"az", "storage", "container", "create", "--name", container_name,
                     "--account-name", account_name>>
        x == run_az_command(command, TRUE, proc)
    IN  BoolResult(<<"Creating container '" \o container_name \o "' in account '"
                     \o account_name \o "'...">>,
                   x, <<"Container '" \o container_name \o "' created successfully!">>)

create_vm(name, resource_group, image, size, admin_username, proc) ==
    LET command == <<"az", "vm", "create", "--resource-group", resource_group,
                     "--name", name, "--image", image, "--size", size,
                     "--admin-username", admin_username, "--generate-ssh-keys">>
        x == run_az_command(command, TRUE, proc)
    IN  BoolResult(<<"Creating virtual machine '" \o name \o "'...",
                     "   Resource Group: " \o resource_group,
                     "   Image: " \o image,
                     "   Size: " \o size,
                     "   (This may take several minutes...)">>,
                   x,
                   <<"Virtual machine '" \o name \o "' created successfully!">>
                   \o (IF x.ret.k = "dict"
                       THEN <<"   Public IP: " \o Str(DictGet(x.ret, "publicIpAddress", NA))>>
                       ELSE <<>>))

VmRow(vm) ==
    IF vm.k # "dict" THEN RowRaises("AttributeError")
    ELSE LET name == DictGet(vm, "name", NA)
             rg == DictGet(vm, "resourceGroup", NA)
             location == DictGet(vm, "location", NA)
             power_state == DictGet(vm, "powerState", NA)
         IN  IF \A v \in {name, rg, location, power_state} : Formattable(v)
             THEN Row(Format(name) \o " " \o Format(rg) \o " " \o Format(location)
                      \o " " \o Format(power_state))
             ELSE RowRaises("TypeError")

list_vms(resource_group, proc) ==
    LET command == <<"az", "vm", "list">>
                   \o (IF resource_group # "" THEN <<"--resource-group", resource_group>> ELSE <<>>)
                   \o <<"--show-details">>
        x == run_az_command(command, TRUE, proc)
        elems == Iterate(x.ret)
    IN  ListResult(<<"Fetching virtual machines...\n">>, x,
                   <<"Name Resource Group Location Power State", "------------------------------------------------------------------------------------------">>,
                   elems, [i \in DOMAIN elems.items |-> VmRow(elems.items[i])],
                   <<"\nTotal VMs: " \o IntText(PyLen(x.ret))>>)

start_vm(name, resource_group, proc) ==
    LET command == <<"az", "vm", "start", "--name", name, "--resource-group", resource_group>>
        x == run_az_command(command, FALSE, proc)
    IN  BoolResult(<<"Starting VM '" \o name \o "'...">>, x,
                   <<"VM '" \o name \o "' started successfully!">>)

stop_vm(name, resource_group, proc) ==
    LET command == <<"az", "vm", "deallocate", "--name", name, "--resource-group", resource_group>>
        x == run_az_command(command, FALSE, proc)
    IN  BoolResult(<<"Stopping VM '" \o name \o "'...">>, x,
                   <<"VM '" \o name \o "' stopped successfully!">>)

ResourceRow(resource) ==
    IF resource.k # "dict" THEN RowRaises("AttributeError")
    ELSE LET name == DictGet(resource, "name", NA)
             type == DictGet(resource, "type", NA)
         IN  IF type.k # "str" THEN RowRaises("AttributeError")
             ELSE LET rtype == LastPart(type.s)
                      location == DictGet(resource, "location", NA)
                  IN  IF Formattable(name) /\ Formattable(location)
                      THEN Row(Format(name) \o " " \o rtype \o " " \o Format(location))
                      ELSE RowRaises("TypeError")

list_all_resources(resource_type, proc) ==
    LET command == <<"az", "resource", "list">>
                   \o (IF resource_type # "" THEN <<"--resource-type", resource_type>> ELSE <<>>)
        x == run_az_command(command, TRUE, proc)
        elems == Slice20(x.ret)
        total == PyLen(x.ret)
    IN  ListResult(<<"Fetching all resources...\n">>, x,
                   <<"Name Type Location", "-------------------------------------------------------------------------------------">>,
                   elems, [i \in DOMAIN elems.items |-> ResourceRow(elems.items[i])],
                   <<"\nTotal resources: " \o IntText(total)>>
                   \o (IF total > 20
                       THEN <<"   (Showing first 20 of " \o IntText(total) \o ")">>
                       ELSE <<>>))

TaggedRow(resource) ==
    IF resource.k # "dict" THEN RowRaises("AttributeError")
    ELSE Row("  - " \o Str(DictGet(resource, "name", PyNone)) \o " ("
             \o Str(DictGet(resource, "type", PyNone)) \o ")")

get_resource_by_tag(tag_name, tag_value, proc) ==
    LET command == <<"az", "resource", "list", "--tag", tag_name \o "=" \o tag_value>>
        x == run_az_command(command, TRUE, proc)
        elems == Iterate(x.ret)
    IN  ListResult(<<"Fetching resources with tag " \o tag_name \o "=" \o tag_value \o "...\n">>,
                   x, <<>>,
                   elems, [i \in DOMAIN elems.items |-> TaggedRow(elems.items[i])],
                   <<"\nFound " \o IntText(PyLen(x.ret)) \o " resources">>)

----------------------------------------------------------------------------
(* AzureCLIApp: the banner and the subscription display *)

\* show_banner: .get on a truthy current_subscription that is no dict raises
show_banner(sub) ==
    LET head == <<"\n============================================================",
                  "  Azure Resource Manager CLI Tool",
                  "  Learning Azure CLI through practical examples",
                  "============================================================">>
    IN  IF ~Truthy(sub) THEN [raised |-> "none", printed |-> head \o <<"">>]
        ELSE IF sub.k # "dict" THEN [raised |-> "AttributeError", printed |-> head]
        ELSE [raised |-> "none",
              printed |-> head
                  \o <<"\nCurrent Subscription: " \o Str(DictGet(sub, "name", PyStr("Unknown"))),
                       "   ID: " \o Str(DictGet(sub, "id", PyStr("Unknown"))),
                       "">>]

show_subscription_info(sub) ==
    IF ~Truthy(sub)
    THEN [raised |-> "none", printed |-> <<"\nCould not retrieve subscription information.">>]
    ELSE IF sub.k # "dict"
    THEN [raised |-> "AttributeError",
          printed |-> <<"\n============================================================",
                        "Current Subscription Details",
                        "============================================================">>]
    ELSE [raised |-> "none",
          printed |-> <<"\n============================================================",
                        "Current Subscription Details",
                        "============================================================",
                        "Name: " \o Str(DictGet(sub, "name", NA)),
                        "ID: " \o Str(DictGet(sub, "id", NA)),
                        "State: " \o Str(DictGet(sub, "state", NA)),
                        "Tenant ID: " \o Str(DictGet(sub, "tenantId", NA)),
                        "Is Default: " \o Str(DictGet(sub, "isDefault", NA))>>]

----------------------------------------------------------------------------
(* Inputs *)

\* json.dumps(v, separators=(",", ":")), as lexemes
RECURSIVE IntLexemes(_)
IntLexemes(n) ==
    IF n < 10 THEN <<DigitText(n)>> ELSE Append(IntLexemes(n \div 10), DigitText(n % 10))

RECURSIVE Dumps(_), DumpsItems(_, _), DumpsPairs(_, _)
DumpsItems(items, i) ==
    IF i > Len(items) THEN <<>>
    ELSE Dumps(items[i]) \o (IF i < Len(items) THEN <<",">> ELSE <<>>) \o DumpsItems(items, i + 1)
DumpsPairs(d, i) ==
    IF i > Len(d.keys) THEN <<>>
    ELSE <<"\"" \o d.keys[i] \o "\"", ":">> \o Dumps(d.items[i])
         \o (IF i < Len(d.keys) THEN <<",">> ELSE <<>>) \o DumpsPairs(d, i + 1)
Dumps(v) ==
    CASE v.k = "none" -> <<"null">>
      [] v.k = "bool" -> (IF v.b THEN <<"true">> ELSE <<"false">>)
      [] v.k = "int"  -> IntLexemes(v.n)
      [] v.k = "str"  -> <<"\"" \o v.s \o "\"">>
      [] v.k = "list" -> <<"[">> \o DumpsItems(v.items, 1) \o <<"]">>
      [] v.k = "dict" -> <<"{">> \o DumpsPairs(v, 1) \o <<"}">>

\* a resource as the external program lists it
SampleResource ==
    PyDict(<<"name", "id", "location", "type", "properties", "sku">>,
           <<PyStr("rg1"), PyStr("a"), PyStr("eastus"),
             PyStr("Microsoft.Compute/virtualMachines"),
             PyDict(<<"provisioningState">>, <<PyStr("Succeeded")>>),
             PyDict(<<"name">>, <<PyStr("a")>>)>>)

\* a resource whose fields are null
NullFieldResource ==
    PyDict(<<"name", "type", "properties", "sku">>, <<PyNone, PyNone, PyNone, PyNone>>)

\* a resource that has a name only
UntypedResource == PyDict(<<"name">>, <<PyStr("a")>>)

\* the decoded structures the sample outputs carry
SampleValues ==
    {PyList(<<SampleResource>>), SampleResource, PyList(<<PyInt(7)>>),
     PyList(<<NullFieldResource>>), PyList(<<UntypedResource>>), PyNone, PyTrue,
     PyFalse, PyInt(0), PyList(<<>>), EmptyDict}

\* well-formed outputs, newline-terminated as the external program prints them
SampleOutputs == {Dumps(v) \o <<"\n">> : v \in SampleValues}

\* outputs no JSON text matches: a warning line, a cut-off document
MalformedOutputs == {<<"x", "\n">>, <<"[", "{", "\"name\"", ":">>}

\* the lexemes of the outputs enumerated exhaustively
OutputAlphabet == {"[", "]", ",", "null", "0", "7", "\"a\"", " ", "x"}

\* every output of at most n lexemes
RECURSIVE OutputsUpTo(_)
OutputsUpTo(n) ==
    IF n = 0 THEN {<<>>}
    ELSE LET shorter == OutputsUpTo(n - 1) IN
         shorter \cup {Append(o, a) : o \in {q \in shorter : Len(q) = n - 1},
                                      a \in OutputAlphabet}

\* the diagnostic texts on standard error
Diagnostics == {"", "quota exceeded"}

\* what the external program may do, given the outputs of a zero exit
ProcsWith(outputs) ==
    {Proc("exit0", out, "") : out \in outputs}
    \cup {Proc("nonzero", <<>>, d) : d \in Diagnostics}
    \cup {Proc("notfound", <<>>, ""), Proc("undecodable", <<>>, "")}

\* ... when the program runs
ProgramProcs == ProcsWith(SampleOutputs \cup MalformedOutputs \cup {<<>>})

\* ... when run_az_command is exercised on its own
HarnessProcs == ProcsWith(OutputsUpTo(MaxLen) \cup SampleOutputs \cup MalformedOutputs)

NoProc == Proc("none", <<>>, "")

\* names a user types or passes; "" is an option left out (None) or an empty entry
Names == {"", "rg1"}
Locations == {"eastus"}
Actions == {"create-rg", "list-rg", "delete-rg", "create-storage", "list-storage",
            "create-vm", "list-vm", "list-resources"}
Confirmations == {"yes", "no"}

\* what a user types at a prompt for a name, and for a resource group
Entries == {"", "rg1"}
GroupEntries == {"rg1"}

\* The command lines: main() returns into interactive_mode at line 644
\* before it reads any option but the action, so without an action the
\* other options are left out.
CommandLines ==
    {a \in [action : Actions \cup {""}, name : Names, resource_group : Names,
            location : Locations] :
        a.action = "" => a.name = "" /\ a.resource_group = ""}

\* command lists a caller of run_az_command holds
HarnessCommands ==
    {<<>>, <<"az", "group", "list">>, <<"az", "group", "delete", "--name", "rg1", "--yes">>}

----------------------------------------------------------------------------
(* The record of a step *)

\* a step that called nothing
NoCall ==
    [given |-> <<>>, capture |-> FALSE, proc |-> NoProc, command |-> <<>>,
     argv |-> <<>>, invoked |-> FALSE, ret |-> PyNone, raised |-> "none",
     printed |-> <<>>]

\* op: the operation; path: "init", "cli", "menu" or "harness"; confirm: the
\* answer to the step's confirmation prompt, "unasked" when it has none;
\* o: the operation's Outcome
Step(op, path, confirm, o) ==
    [op |-> op, path |-> path, confirm |-> confirm, ret |-> o.ret,
     raised |-> o.raised, printed |-> o.printed, exec |-> o.exec]

Quiet(op, path, confirm, printed) ==
    Step(op, path, confirm, Outcome(PyNone, "none", printed, NoCall))

----------------------------------------------------------------------------
(* The program: main() *)

\* 1 when the call started the command line 104 builds, az account show
\* (with whatever the executor appended), else 0
AccountShows(x) ==
    IF /\ x.invoked
       /\ Len(x.argv) >= 3
       /\ SubSeq(x.argv, 1, 3) = <<"az", "account", "show">>
    THEN 1 ELSE 0

Init ==
    /\ pc = "start"
    /\ args \in CommandLines
    /\ exitStatus = -1
    /\ fault = "none"
    /\ nCalls = 0
    /\ nAccountShow = 0
    /\ verified = "pending"
    /\ current_subscription = PyNone
    /\ callerCommand = <<>>
    /\ python \in PythonVersions
    /\ last = Quiet("parse_args", "init", "unasked", <<>>)

\* AzureCLIApp() -> AzureCLIManager.__init__, line 31: the program goes on
\* unless verify_azure_cli exited or raised
Verify ==
    /\ pc = "start"
    /\ \E proc \in ProcsWith({<<"x", "\n">>}) :
         LET v == verify_azure_cli(proc)
             call == [NoCall EXCEPT !.proc = proc, !.argv = <<"az", "--version">>,
                                    !.given = <<"az", "--version">>,
                                    !.command = <<"az", "--version">>,
                                    !.capture = TRUE, !.invoked = TRUE]
         IN  /\ nCalls' = nCalls + 1
             /\ verified' = IF v.exc = "none" THEN "ok" ELSE v.exc
             /\ last' = Step("verify_azure_cli", "init", "unasked",
                             Outcome(IF v.exit = -1 /\ v.raised = "none" THEN PyTrue ELSE PyNone,
                                     v.raised, v.printed, call))
             /\ IF v.exit = -1 /\ v.raised = "none"
                THEN /\ pc' = "subscription"
                     /\ UNCHANGED <<exitStatus, fault>>
                ELSE /\ pc' = "done"
                     /\ exitStatus' = 1
                     /\ fault' = v.raised
    /\ UNCHANGED <<args, nAccountShow, current_subscription, callerCommand, python>>

\* AzureCLIManager.__init__, line 32
FetchSubscription ==
    /\ pc = "subscription"
    /\ \E proc \in ProgramProcs :
         LET x == get_current_subscription(proc) IN
         /\ nCalls' = nCalls + 1
         /\ nAccountShow' = nAccountShow + AccountShows(x)
         /\ callerCommand' = x.command
         /\ last' = Step("get_current_subscription", "init", "unasked",
                         Outcome(x.ret, x.raised, x.printed, x))
         /\ IF x.raised = "none"
            THEN /\ current_subscription' = x.ret
                 /\ pc' = "banner"
                 /\ UNCHANGED <<exitStatus, fault>>
            ELSE /\ current_subscription' = current_subscription
                 /\ pc' = "done"
                 /\ exitStatus' = 1
                 /\ fault' = x.raised
    /\ UNCHANGED <<args, verified, python>>

\* interactive_mode line 450, main line 647
ShowBanner ==
    /\ pc = "banner"
    /\ LET b == show_banner(current_subscription) IN
       /\ last' = Step("show_banner", IF args.action = "" THEN "menu" ELSE "cli", "unasked",
                       Outcome(PyNone, b.raised, b.printed, NoCall))
       /\ IF b.raised = "none"
          THEN /\ pc' = IF args.action = "" THEN "main_menu" ELSE "dispatch"
               /\ UNCHANGED <<exitStatus, fault>>
          ELSE /\ pc' = "done"
               /\ exitStatus' = 1
               /\ fault' = b.raised
    /\ UNCHANGED <<args, nCalls, nAccountShow, verified, current_subscription, callerCommand,
                   python>>

\* a catalog operation ran: an exception that leaves it ends the program
\* with a traceback and status 1; otherwise the program goes on at nextPc
Ran(op, path, confirm, o, nextPc) ==
    /\ last' = Step(op, path, confirm, o)
    /\ callerCommand' = o.exec.command
    /\ nCalls' = nCalls + 1
    /\ IF o.raised # "none"
       THEN pc' = "done" /\ fault' = o.raised /\ exitStatus' = 1
       ELSE /\ pc' = nextPc
            /\ fault' = fault
            /\ exitStatus' = IF nextPc = "done" THEN 0 ELSE exitStatus
    /\ nAccountShow' = nAccountShow + AccountShows(o.exec)
    /\ UNCHANGED <<args, verified, current_subscription, python>>

\* a step that runs no operation
Stepped(op, path, confirm, printed, nextPc, status) ==
    /\ last' = Quiet(op, path, confirm, printed)
    /\ pc' = nextPc
    /\ exitStatus' = status
    /\ UNCHANGED <<args, fault, nCalls, nAccountShow, verified, current_subscription,
                   callerCommand, python>>

\* main lines 652-654, 657-659, 664-666, 671-673: sys.exit(1) on a missing option
UsageError ==
    /\ pc = "dispatch"
    /\ \/ /\ args.action \in {"create-rg", "delete-rg"}
          /\ args.name = ""
          /\ Stepped("usage_error", "cli", "unasked",
                     <<"Error: --name required for " \o args.action \o " action">>,
                     "done", 1)
       \/ /\ args.action \in {"create-storage", "create-vm"}
          /\ args.name = "" \/ args.resource_group = ""
          /\ Stepped("usage_error", "cli", "unasked",
                     <<"Error: --name and --resource-group required for "
                       \o args.action \o " action">>,
                     "done", 1)

\* main lines 649-676: the action's operation, then main() returns
Dispatch ==
    /\ pc = "dispatch"
    /\ \E proc \in ProgramProcs :
       \/ /\ args.action = "list-rg"
          /\ Ran("list_resource_groups", "cli", "unasked", list_resource_groups(proc), "done")
       \/ /\ args.action = "create-rg"
          /\ args.name # ""
          /\ Ran("create_resource_group", "cli", "unasked",
                 create_resource_group(args.name, args.location, <<>>, proc), "done")
       \/ /\ args.action = "delete-rg"
          /\ args.name # ""
          /\ Ran("delete_resource_group", "cli", "unasked",
                 delete_resource_group(args.name, TRUE, proc), "done")
       \/ /\ args.action = "list-storage"
          /\ Ran("list_storage_accounts", "cli", "unasked",
                 list_storage_accounts(args.resource_group, proc), "done")
       \/ /\ args.action = "create-storage"
          /\ args.name # "" /\ args.resource_group # ""
          /\ Ran("create_storage_account", "cli", "unasked",
                 create_storage_account(args.name, args.resource_group, args.location,
                                        "Standard_LRS", proc), "done")
       \/ /\ args.action = "list-vm"
          /\ Ran("list_vms", "cli", "unasked", list_vms(args.resource_group, proc), "done")
       \/ /\ args.action = "create-vm"
          /\ args.name # "" /\ args.resource_group # ""
          /\ Ran("create_vm", "cli", "unasked",
                 create_vm(args.name, args.resource_group, "UbuntuLTS", "Standard_B1s",
                           "azureuser", proc), "done")
       \/ /\ args.action = "list-resources"
          /\ Ran("list_all_resources", "cli", "unasked", list_all_resources("", proc), "done")

\* the session may still start an operation
MayOperate == nCalls < 2 + MaxOps

\* interactive_mode, lines 452-482
MainMenu ==
    /\ pc = "main_menu"
    /\ \/ Stepped("main_menu", "menu", "unasked", <<>>, "resource_group_menu", exitStatus)
       \/ Stepped("main_menu", "menu", "unasked", <<>>, "storage_menu", exitStatus)
       \/ Stepped("main_menu", "menu", "unasked", <<>>, "vm_menu", exitStatus)
       \/ /\ MayOperate
          /\ \E proc \in ProgramProcs :
               Ran("list_all_resources", "menu", "unasked", list_all_resources("", proc),
                   "main_menu")
       \/ LET i == show_subscription_info(current_subscription) IN
          /\ i.raised = "none"
          /\ Stepped("show_subscription_info", "menu", "unasked", i.printed, "main_menu",
                     exitStatus)
       \/ Stepped("exit", "menu", "unasked",
                  <<"\nThank you for using Azure Resource Manager CLI Tool!",
                    "   Happy cloud computing!\n">>, "done", 0)
       \/ Stepped("main_menu", "menu", "unasked",
                  <<"Invalid option. Please select 1-6.">>, "main_menu", exitStatus)

\* resource_group_menu, lines 486-517
ResourceGroupMenu ==
    /\ pc = "resource_group_menu"
    /\ \/ /\ MayOperate
          /\ \E name \in Entries, location \in Locations, proc \in ProgramProcs :
               Ran("create_resource_group", "menu", "unasked",
                   create_resource_group(name, location, <<>>, proc), "resource_group_menu")
       \/ /\ MayOperate
          /\ \E proc \in ProgramProcs :
               Ran("list_resource_groups", "menu", "unasked", list_resource_groups(proc),
                   "resource_group_menu")
       \/ /\ MayOperate
          /\ \E name \in Entries, proc \in ProgramProcs :
               Ran("delete_resource_group", "menu", "yes",
                   delete_resource_group(name, TRUE, proc), "resource_group_menu")
       \/ \E confirm \in Confirmations \ {"yes"} :
            Stepped("delete_resource_group", "menu", confirm, <<"Deletion cancelled.">>,
                    "resource_group_menu", exitStatus)
       \/ Stepped("resource_group_menu", "menu", "unasked", <<>>, "main_menu", exitStatus)
       \/ Stepped("resource_group_menu", "menu", "unasked", <<"Invalid option.">>,
                  "resource_group_menu", exitStatus)

\* storage_menu, lines 521-550
StorageMenu ==
    /\ pc = "storage_menu"
    /\ \/ /\ MayOperate
          /\ \E name \in Entries, rg \in GroupEntries, location \in Locations,
                proc \in ProgramProcs :
               Ran("create_storage_account", "menu", "unasked",
                   create_storage_account(name, rg, location, "Standard_LRS", proc),
                   "storage_menu")
       \/ /\ MayOperate
          /\ \E proc \in ProgramProcs :
               Ran("list_storage_accounts", "menu", "unasked",
                   list_storage_accounts("", proc), "storage_menu")
       \/ /\ MayOperate
          /\ \E account \in GroupEntries, container \in Entries, proc \in ProgramProcs :
               Ran("create_blob_container", "menu", "unasked",
                   create_blob_container(account, container, proc), "storage_menu")
       \/ Stepped("storage_menu", "menu", "unasked", <<>>, "main_menu", exitStatus)
       \/ Stepped("storage_menu", "menu", "unasked", <<"Invalid option.">>,
                  "storage_menu", exitStatus)

\* vm_menu, lines 554-593
VmMenu ==
    /\ pc = "vm_menu"
    /\ \/ /\ MayOperate
          /\ \E name \in Entries, rg \in GroupEntries, proc \in ProgramProcs :
               LET o == create_vm(name, rg, "UbuntuLTS", "Standard_B1s", "azureuser", proc)
               IN  Ran("create_vm", "menu", "yes",
                       [o EXCEPT !.printed = <<"\nCreating a VM will incur costs!">> \o @],
                       "vm_menu")
       \/ \E confirm \in Confirmations \ {"yes"} :
            Stepped("create_vm", "menu", confirm,
                    <<"\nCreating a VM will incur costs!", "VM creation cancelled.">>,
                    "vm_menu", exitStatus)
       \/ /\ MayOperate
          /\ \E proc \in ProgramProcs :
               Ran("list_vms", "menu", "unasked", list_vms("", proc), "vm_menu")
       \/ /\ MayOperate
          /\ \E name \in Entries, rg \in GroupEntries, proc \in ProgramProcs :
               Ran("start_vm", "menu", "unasked", start_vm(name, rg, proc), "vm_menu")
       \/ /\ MayOperate
          /\ \E name \in Entries, rg \in GroupEntries, proc \in ProgramProcs :
               Ran("stop_vm", "menu", "unasked", stop_vm(name, rg, proc), "vm_menu")
       \/ Stepped("vm_menu", "menu", "unasked", <<>>, "main_menu", exitStatus)
       \/ Stepped("vm_menu", "menu", "unasked", <<"Invalid option.">>, "vm_menu",
                  exitStatus)

Next ==
    \/ Verify
    \/ FetchSubscription
    \/ ShowBanner
    \/ UsageError
    \/ Dispatch
    \/ MainMenu
    \/ ResourceGroupMenu
    \/ StorageMenu
    \/ VmMenu

Spec == Init /\ [][Next]_vars

----------------------------------------------------------------------------
(* run_az_command on its own: the caller holds a constructed manager of a  *)
(* logged-in user (__init__ started az --version and az account show) and  *)
(* a command list, and executes the list MaxCalls times at most, with      *)
(* either capture mode and any behaviour of the external process. Nothing  *)
(* in run_az_command depends on the interpreter, so one is taken.          *)

InitExec ==
    /\ pc = "harness"
    /\ args = [action |-> "", name |-> "", resource_group |-> "", location |-> "eastus"]
    /\ exitStatus = -1
    /\ fault = "none"
    /\ nCalls = 2
    /\ nAccountShow = 1
    /\ verified = "ok"
    /\ current_subscription
           = get_current_subscription(Proc("exit0", Dumps(SampleResource) \o <<"\n">>, "")).ret
    /\ callerCommand \in HarnessCommands
    /\ python = "3.12"
    /\ last = Quiet("build", "harness", "unasked", <<>>)

\* The caller executes its list again only after a call whose process
\* printed nothing: every list that repeated calls produce is reached, and
\* every call still meets every behaviour of the process.
MayReuse == last.op = "build" \/ last.exec.proc \in ProcsWith({<<>>})

Execute ==
    /\ pc = "harness"
    /\ nCalls < 2 + MaxCalls
    /\ MayReuse
    /\ \E capture_output \in BOOLEAN, proc \in HarnessProcs :
         LET x == run_az_command(callerCommand, capture_output, proc) IN
         /\ last' = Step("run_az_command", "harness", "unasked",
                         Outcome(x.ret, x.raised, x.printed, x))
         /\ callerCommand' = x.command
         /\ nCalls' = nCalls + 1
         /\ nAccountShow' = nAccountShow + AccountShows(x)
         /\ fault' = x.raised
    /\ UNCHANGED <<pc, args, exitStatus, verified, current_subscription, python>>

NextExec == Execute

SpecExec == InitExec /\ [][NextExec]_vars

----------------------------------------------------------------------------
(* Well-formed JSON, stated apart from json_loads: a text is well formed   *)
(* when it is the compact text of some value with whitespace between its   *)
(* tokens.                                                                 *)

\* The tokens of a text: whitespace dropped, each run of digits one token.
RECURSIVE TokensFrom(_, _, _, _)
TokensFrom(s, i, run, acc) ==
    LET flushed == IF run = <<>> THEN acc ELSE Append(acc, run) IN
    IF i > Len(s) THEN flushed
    ELSE IF s[i] \in DigitLexemes THEN TokensFrom(s, i + 1, Append(run, s[i]), acc)
    ELSE IF s[i] \in WhitespaceLexemes THEN TokensFrom(s, i + 1, <<>>, flushed)
    ELSE TokensFrom(s, i + 1, <<>>, Append(flushed, <<s[i]>>))

Tokens(s) == TokensFrom(s, 1, <<>>, <<>>)

\* the ints of exactly n digits written with the digits of OutputAlphabet
RECURSIVE IntsOfDigits(_)
IntsOfDigits(n) ==
    IF n = 1 THEN {7}
    ELSE {10 * m + d : m \in IntsOfDigits(n - 1), d \in {0, 7}}

\* the scalars whose text has at most n lexemes of OutputAlphabet
JsonScalars(n) ==
    {PyNone, PyStr("a"), PyInt(0)}
    \cup {PyInt(m) : m \in UNION {IntsOfDigits(k) : k \in 1..n}}

\* the values whose compact text has at most n lexemes of OutputAlphabet, and
\* the item lists whose text (items and commas) has at most n
RECURSIVE JsonValues(_), JsonItems(_)
JsonValues(n) ==
    IF n < 1 THEN {}
    ELSE JsonScalars(n)
         \cup (IF n < 2 THEN {} ELSE {PyList(items) : items \in JsonItems(n - 2)})
JsonItems(n) ==
    IF n < 1 THEN {<<>>}
    ELSE {<<>>}
         \cup UNION {{<<v>>} \cup {<<v>> \o rest :
                                     rest \in JsonItems(n - Len(Dumps(v)) - 1) \ {<<>>}}
                     : v \in JsonValues(n)}

\* the values a text is the JSON text of: one at most
DecodedValues(s) ==
    {v \in JsonValues(MaxLen) \cup SampleValues : Tokens(Dumps(v)) = Tokens(s)}

----------------------------------------------------------------------------
(* AzureCLIManager used as a library, for what main() and the menus never *)
(* do: they always pass no_wait=True to delete_resource_group (the         *)
(* method's default is no_wait=False) and never call get_resource_by_tag.  *)
(* The caller holds a constructed AzureCLIManager and makes MaxCalls calls *)
(* at most.                                                                *)

\* AzureCLIManager() has returned: __init__ started az --version, which
\* succeeded, and az account show, whose result it stored (lines 31-32)
InitDelete ==
    /\ pc = "library"
    /\ args = [name |-> "", no_wait |-> FALSE]
    /\ exitStatus = -1
    /\ fault = "none"
    /\ nCalls = 2
    /\ nAccountShow = 1
    /\ verified = "ok"
    /\ \E proc \in ProgramProcs : current_subscription = get_current_subscription(proc).ret
    /\ callerCommand = <<>>
    /\ python \in PythonVersions
    /\ last = Quiet("build", "library", "unasked", <<>>)

\* names a library caller passes: the method takes any string, the text of
\* an option included
GroupNames == Names \cup {"--no-wait"}

Delete ==
    /\ pc = "library"
    /\ nCalls < 2 + MaxCalls
    /\ \E name \in GroupNames, no_wait \in BOOLEAN, proc \in ProgramProcs :
         LET o == delete_resource_group(name, no_wait, proc) IN
         /\ args' = [name |-> name, no_wait |-> no_wait]
         /\ last' = Step("delete_resource_group", "library", "unasked", o)
         /\ callerCommand' = o.exec.command
         /\ nCalls' = nCalls + 1
         /\ nAccountShow' = nAccountShow + AccountShows(o.exec)
         /\ fault' = o.raised
    /\ UNCHANGED <<pc, exitStatus, verified, current_subscription, python>>

\* get_resource_by_tag, which main() and the menus never call
TagNames == {"env"}
TagValues == {"", "dev"}

GetResourceByTag ==
    /\ pc = "library"
    /\ nCalls < 2 + MaxCalls
    /\ \E tag_name \in TagNames, tag_value \in TagValues, proc \in ProgramProcs :
         LET o == get_resource_by_tag(tag_name, tag_value, proc) IN
         /\ args' = [tag_name |-> tag_name, tag_value |-> tag_value]
         /\ last' = Step("get_resource_by_tag", "library", "unasked", o)
         /\ callerCommand' = o.exec.command
         /\ nCalls' = nCalls + 1
         /\ nAccountShow' = nAccountShow + AccountShows(o.exec)
         /\ fault' = o.raised
    /\ UNCHANGED <<pc, exitStatus, verified, current_subscription, python>>

NextDelete == Delete \/ GetResourceByTag

SpecDelete == InitDelete /\ [][NextDelete]_vars

----------------------------------------------------------------------------
(* Claims *)

CatalogOps ==
    {"create_resource_group", "list_resource_groups", "delete_resource_group",
     "create_storage_account", "list_storage_accounts", "create_blob_container",
     "create_vm", "list_vms", "start_vm", "stop_vm", "list_all_resources",
     "get_resource_by_tag"}
ListOps ==
    {"list_resource_groups", "list_storage_accounts", "list_vms", "list_all_resources",
     "get_resource_by_tag"}

\* the last step was a call of run_az_command by the harness
Executed == last.op = "run_az_command"
\* ... and the process it started exited with status zero
ExitedZero == Executed /\ last.exec.invoked /\ last.exec.proc.kind = "exit0"
\* the last step ran a catalog operation that called the executor
CatalogRan == last.op \in CatalogOps /\ last.exec.proc.kind # "none"

\* C1: run_az_command never raises: whatever the command list (empty
\* included), the capture mode and the behaviour of the external process,
\* the call returns a value and no exception leaves it.
C1_NeverRaises ==
    Executed => last.raised = "none" /\ fault = "none"

\* C1 witness: the empty list, not captured: subprocess.run raises IndexError,
\* the catch-all clause prints it and the call returns None.
C1_Witness ==
    /\ Executed
    /\ last.exec.given = <<>>
    /\ ~last.exec.capture
    /\ last.raised = "none"
    /\ last.ret = PyNone
    /\ last.printed = <<"Unexpected error: list index out of range">>

\* C2 (as claimed): no catalog operation raises, whatever the executor
\* returned to it.
C2_CatalogNeverRaises ==
    last.op \in CatalogOps => last.raised = "none"

\* C3 (as claimed): when create-storage is requested with a name and no
\* resource group, no external process has been started when the program
\* exits with the usage error.
C3_UsageErrorBeforeAnyInvocation ==
    (/\ last.op = "usage_error"
     /\ args.action = "create-storage"
     /\ args.name # ""
     /\ args.resource_group = "")
    => exitStatus = 1 /\ nCalls = 0

\* C4 (as claimed): on every path, a deletion that was not affirmed starts no
\* process, and an affirmed one starts one process whose command holds "--yes".
C4_DeletionOnlyWhenAffirmed ==
    last.op = "delete_resource_group" =>
        /\ last.confirm # "yes" => ~last.exec.invoked
        /\ last.confirm = "yes" =>
              last.exec.invoked /\ "--yes" \in Range(last.exec.argv)

\* C5: when the external process of a catalog operation exits non-zero with
\* the diagnostic text D, the operation returns False (an empty list for a
\* list operation), the attempted command and D are printed, and the program
\* goes on: no exception, no failure status, and the menu is shown again.
C5_FailureMapping ==
    (CatalogRan /\ last.exec.proc.kind = "nonzero") =>
        /\ last.raised = "none"
        /\ fault = "none"
        /\ last.ret = (IF last.op \in ListOps THEN PyList(<<>>) ELSE PyFalse)
        /\ ("Error executing command: " \o Join(last.exec.argv, " ")) \in Range(last.printed)
        /\ last.exec.proc.stderr # "" =>
              ("Details: " \o last.exec.proc.stderr) \in Range(last.printed)
        /\ exitStatus # 1
        /\ last.path = "menu" => pc \in {"main_menu", "resource_group_menu",
                                         "storage_menu", "vm_menu"}

\* C5 witness: a storage account creation from the menu fails with
\* "quota exceeded": False, both lines printed, back in the storage menu.
C5_Witness ==
    /\ last.op = "create_storage_account"
    /\ last.path = "menu"
    /\ last.exec.proc = Proc("nonzero", <<>>, "quota exceeded")
    /\ last.ret = PyFalse
    /\ "Details: quota exceeded" \in Range(last.printed)
    /\ "Error executing command: az storage account create --name rg1 --resource-group rg1 --location eastus --sku Standard_LRS --output json"
          \in Range(last.printed)
    /\ pc = "storage_menu"

\* C6: a capturing call that exits zero with a non-empty output S returns the
\* decoded structure of S when S is well-formed JSON; when S is malformed it
\* returns S unchanged, prints no error and does not return None.
C6_DecodeOrRawText ==
    (ExitedZero /\ last.exec.capture /\ last.exec.proc.stdout # <<>>)
    => LET decoded == DecodedValues(last.exec.proc.stdout) IN
       IF decoded # {}
       THEN last.ret \in decoded
       ELSE /\ last.ret = PyStr(Text(last.exec.proc.stdout))
            /\ last.ret # PyNone
            /\ last.printed = <<>>

\* C6 witness: the output "[7,]" is malformed and comes back as that text.
C6_Witness ==
    /\ Executed
    /\ last.exec.capture
    /\ last.exec.proc = Proc("exit0", <<"[", "7", ",">>, "")
    /\ last.ret = PyStr("[7,")

\* C7 (as claimed): a call that does not capture and exits zero returns True,
\* with or without output.
C7_AlwaysTrue ==
    (ExitedZero /\ ~last.exec.capture)
    => last.ret = PyTrue

\* C8 (as claimed): run_az_command leaves the caller's list as it was.
C8_CommandUnchanged ==
    Executed => callerCommand = last.exec.given

\* C9: when the startup check fails (program not found, or a non-zero exit of
\* the version check) the program has ended with status 1, and the version
\* check is the only process ever started: no subscription fetch, no
\* operation.
C9_StartupFailureIsFatal ==
    verified \in {"FileNotFoundError", "CalledProcessError"} =>
        /\ pc = "done"
        /\ exitStatus = 1
        /\ nCalls = 1
        /\ nAccountShow = 0
        /\ last.op = "verify_azure_cli"

\* C9 witness: the program was not found, and the program ended with status 1.
C9_Witness ==
    /\ verified = "FileNotFoundError"
    /\ pc = "done"
    /\ exitStatus = 1
    /\ last.printed = <<"Error: Azure CLI command 'az' not found.",
                        "Please ensure Azure CLI is installed and in your PATH.">>

\* C10: a capturing call gives subprocess.run the caller's arguments followed
\* by "--output", "json" as the last two; a call that does not capture gives
\* it the caller's arguments and nothing else.
C10_OutputFormatPair ==
    Executed =>
        LET argv == last.exec.argv
            n == Len(argv) IN
        /\ last.exec.capture =>
              /\ n >= 2
              /\ argv[n - 1] = "--output"
              /\ argv[n] = "json"
              /\ SubSeq(argv, 1, n - 2) = last.exec.given
        /\ ~last.exec.capture => argv = last.exec.given

\* C10 witness: "az group list", captured, runs with the pair appended.
C10_Witness ==
    /\ Executed
    /\ last.exec.capture
    /\ last.exec.invoked
    /\ last.exec.given = <<"az", "group", "list">>
    /\ last.exec.argv = <<"az", "group", "list", "--output", "json">>

\* the last step was a call of delete_resource_group by the library caller
Deleted == last.op = "delete_resource_group" /\ last.path = "library"

\* C11 (as claimed): the command delete_resource_group executes with
\* no_wait true is the command of the waiting variant for the same name
\* followed by the single token "--no-wait", and the waiting variant's
\* command never contains "--no-wait".
C11_WaitingNeverHasNoWait ==
    Deleted =>
        LET argv == last.exec.argv
            waiting == delete_resource_group(args.name, FALSE, last.exec.proc).exec.argv
        IN  /\ last.exec.invoked
            /\ args.no_wait =>
                  /\ Len(argv) = Len(waiting) + 1
                  /\ SubSeq(argv, 1, Len(waiting)) = waiting
                  /\ argv[Len(argv)] = "--no-wait"
            /\ ~args.no_wait =>
                  \A i \in DOMAIN argv : argv[i] # "--no-wait"

\* C11 (amended): the command delete_resource_group executes with no_wait
\* true is the command of the waiting variant for the same name followed by
\* the single token "--no-wait"; the waiting variant's command is
\* az group delete --name NAME --yes, so "--no-wait" occurs in it only as
\* the name operand, when the caller passed that text as the name.
C11_NoWaitAppendsOneToken ==
    Deleted =>
        LET argv == last.exec.argv
            waiting == delete_resource_group(args.name, FALSE, last.exec.proc).exec.argv
        IN  /\ last.exec.invoked
            /\ args.no_wait =>
                  /\ Len(argv) = Len(waiting) + 1
                  /\ SubSeq(argv, 1, Len(waiting)) = waiting
                  /\ argv[Len(argv)] = "--no-wait"
            /\ ~args.no_wait =>
                  /\ argv = <<"az", "group", "delete", "--name", args.name, "--yes">>
                  /\ \A i \in DOMAIN argv :
                        argv[i] = "--no-wait" => (i = 5 /\ args.name = "--no-wait")

\* C11 witness: a deletion with no_wait true of the group named "--no-wait"
\* started a process: the token is there twice, as the name and as the flag.
C11_Witness ==
    /\ Deleted
    /\ args.no_wait
    /\ args.name = "--no-wait"
    /\ last.exec.invoked
    /\ last.exec.argv = <<"az", "group", "delete", "--name", "--no-wait", "--yes",
                          "--no-wait">>

\* AzureCLIManager.__init__ has returned
InitFinished == verified = "ok" /\ pc \notin {"start", "subscription"}

\* C12: once initialization has finished, az account show has been started
\* exactly once, and no later step (catalog operation, menu choice, usage
\* error) starts it again or changes current_subscription.
C12_SubscriptionFetchedOnce ==
    [][InitFinished =>
         /\ nAccountShow = 1
         /\ nAccountShow' = 1
         /\ current_subscription' = current_subscription]_vars

\* an interactive session that fetched a subscription and has then run
\* MaxOps catalog operations
C12_Witness ==
    /\ InitFinished
    /\ current_subscription.k = "dict"
    /\ last.op \in CatalogOps
    /\ last.path = "menu"
    /\ nCalls = 2 + MaxOps
    /\ nAccountShow = 1

CreateOps ==
    {"create_resource_group", "create_storage_account", "create_blob_container",
     "create_vm"}

\* C13: for a create operation whose process was started and printed
\* well-formed JSON, run_az_command returned None exactly when the process
\* did not exit zero, and the operation returned True whenever it did exit
\* zero.
C13_SuccessDistinguishable ==
    (/\ last.op \in CreateOps
     /\ last.exec.invoked
     /\ last.exec.proc.stdout \in SampleOutputs)
    => /\ (last.exec.ret = PyNone) <=> (last.exec.proc.kind # "exit0")
       /\ last.exec.proc.kind = "exit0" => last.ret = PyTrue

====
